---- MODULE Spec2Model ----
(***************************************************************************)
(* Chainlit + Ollama chatbot (src/app.py): the session handlers            *)
(* on_chat_start, on_chat_resume and on_message, the backend bootstrap     *)
(* start_ollama and the document reader read_documents.                    *)
(*                                                                         *)
(* Text is a sequence of symbols, so that concatenation (+ and f-strings   *)
(* in the source) is \o and "" is <<>>.  The clock counts half seconds, so *)
(* that round() has something to round.                                    *)
(***************************************************************************)
EXTENDS Integers, Sequences, FiniteSets, TLC

(* ------------------------------ bounds --------------------------------- *)
\* chunks one stream yields at most
MaxChunks == 3
\* turns (on_message calls) per session between two initialisations
MaxTurns == 2
\* last value of the clock, in half seconds
MaxClock == 2
\* steps of a persisted thread
MaxSteps == 2
\* launches of `ollama serve` that are counted
MaxLaunches == 3

(* ------------------------------ values --------------------------------- *)
Sessions == {"s1", "s2"}

\* models = ['qwen3:0.6b','qwen2.5:0.5b']; Python's models[1] is models[2] here
models == <<"qwen3:0.6b", "qwen2.5:0.5b">>

\* the settings a ChatSettings(...).send() returns: every widget's initial value
ChatSettings == [Model |-> models[1], Think |-> TRUE]

\* all sequences over S of length at most n
RECURSIVE SeqsUpTo(_, _)
SeqsUpTo(S, n) ==
  IF n = 0 THEN {<<>>}
  ELSE LET shorter == SeqsUpTo(S, n - 1)
       IN  shorter \cup {Append(q, x) : q \in {r \in shorter : Len(r) = n - 1}, x \in S}

IsPrefix(p, q) == Len(p) <= Len(q) /\ SubSeq(q, 1, Len(p)) = p

(* ---------------------------- documents -------------------------------- *)
\* a chainlit file element: its name, its path (stem, extension), what the
\* file holds (pages, paragraphs or the file's text) and whether opening it
\* succeeds (fitz.open, Document and open raise on a file they cannot read)
DocTxt  == [name |-> "a.txt",  path |-> <<"f1", "txt">>,  parts |-> <<"hello">>,    readable |-> TRUE]
DocPdf  == [name |-> "b.pdf",  path |-> <<"f2", "pdf">>,  parts |-> <<"wor", "ld">>, readable |-> TRUE]
DocDocx == [name |-> "c.docx", path |-> <<"f3", "docx">>, parts |-> <<"p1", "p2">>,  readable |-> TRUE]
DocPng  == [name |-> "d.png",  path |-> <<"f4", "png">>,  parts |-> <<"img">>,      readable |-> TRUE]
DocBad  == [name |-> "e.pdf",  path |-> <<"f5", "pdf">>,  parts |-> <<>>,           readable |-> FALSE]

\* str.endswith, on a path held as <<stem, extension>>
EndsWith(path, suffix) == Len(path) > 0 /\ path[Len(path)] = suffix

\* '\n'.join(parts)
RECURSIVE Join(_, _)
Join(parts, sep) ==
  IF Len(parts) = 0 THEN <<>>
  ELSE IF Len(parts) = 1 THEN <<parts[1]>>
  ELSE <<parts[1], sep>> \o Join(Tail(parts), sep)

\* '\n\nFile: ' + document.name + '\n'
FileHeader(document) == <<"\n\nFile: ", document.name, "\n">>

\* the extensions read_documents opens a file for
Recognized(document) ==
  \/ EndsWith(document.path, "pdf")
  \/ EndsWith(document.path, "docx")
  \/ EndsWith(document.path, "txt")

\* the loop body with `text =` for `text +=`: each document replaces the text
ReadDocumentOverwrites(text, document) ==
  IF Recognized(document)
    THEN FileHeader(document) \o document.parts
    ELSE text

\* one iteration of the loop of read_documents: the text after `document`
ReadDocument(text, document) ==
  IF EndsWith(document.path, "pdf") THEN text \o FileHeader(document) \o document.parts
  ELSE IF EndsWith(document.path, "docx")
    THEN text \o FileHeader(document) \o Join(document.parts, "\n")
  ELSE IF EndsWith(document.path, "txt") THEN text \o FileHeader(document) \o document.parts
  ELSE text

\* read_documents(documents): the text it returns, or that it raised (an
\* exception of an opener leaves the function at the first unreadable file)
RECURSIVE ReadFrom(_, _)
ReadFrom(text, documents) ==
  IF Len(documents) = 0 THEN [raised |-> FALSE, text |-> text]
  ELSE IF Recognized(documents[1]) /\ ~documents[1].readable
    THEN [raised |-> TRUE, text |-> <<>>]
  ELSE ReadFrom(ReadDocument(text, documents[1]), Tail(documents))

read_documents(documents) == ReadFrom(<<>>, documents)

\* f'The user has uploaded the following files {document_data}, assist them ...'
ContextContent(document_data) ==
  <<"The user has uploaded the following files ">> \o document_data
    \o <<", assist them in their queries if related to the uploaded files">>

(* ----------------------------- messages -------------------------------- *)
Message(role, content) == [role |-> role, content |-> content]

\* chat_history.insert(0, ...) for chat_history.append(...)
InsertMessage(history, role, content) == <<Message(role, content)>> \o history

\* chat_history.append({'role': ..., 'content': ...})
AppendMessage(history, role, content) == Append(history, Message(role, content))

(* ------------------------------ chunks --------------------------------- *)
\* what next(stream) gives: a chunk {"message": {"thinking": .., "content": ..}},
\* the end of the stream (StopIteration) or an exception of the backend client
Chunk(thinking_text, content_text) ==
  [kind |-> "chunk", thinking |-> thinking_text, content |-> content_text]
StopIteration == [kind |-> "stop", thinking |-> <<>>, content |-> <<>>]
Raise == [kind |-> "raise", thinking |-> <<>>, content |-> <<>>]

ReasoningChunk == Chunk(<<"t">>, <<>>)
ContentA == Chunk(<<>>, <<"a">>)
ContentB == Chunk(<<>>, <<"b">>)
EmptyChunk == Chunk(<<>>, <<>>)
MixedChunk == Chunk(<<"t">>, <<"a">>)

\* a fresh generator, as ollama.chat(..., stream=True) returns it: nothing is
\* requested from the backend before the first next()
NewStream == [delivered |-> <<>>, state |-> "open"]

(* ------------------------------- state --------------------------------- *)
VARIABLES
  chat_history,        \* session -> cl.user_session 'chat_history'
  settings,            \* session -> cl.user_session 'settings' (the dict on_message mutates)
  widget,              \* session -> the values the settings form shows and submits
  thread,              \* session -> thread['steps'] of its latest on_chat_resume
  pc,                  \* session -> where its handler stands
  turns,               \* session -> on_message calls since the session was initialised
  last,                \* session -> how the latest on_message ended
  message,             \* session -> the cl.Message of the turn: content, elements
  request,             \* session -> the arguments of the turn's ollama.chat call, if made
  stream,              \* session -> the generator ollama.chat returned
  thinking,            \* session -> local `thinking`
  assistant_response,  \* session -> local `assistant_response`
  start,               \* session -> local `start`
  thought_duration,    \* session -> local `thought_duration`, <<>> while unset
  out,                 \* session -> what the turn sent to the UI, in order
  now,                 \* time.time(), in half seconds
  loop,                \* the session whose handler holds the event loop in a blocking call, or "free"
  running,             \* an `ollama serve` process holds the port
  launches             \* subprocess.Popen(['ollama', 'serve']) calls so far

vars == <<chat_history, settings, widget, thread, pc, turns, last, message, request, stream,
          thinking, assistant_response, start, thought_duration, out, now, loop,
          running, launches>>

sessionVars == <<chat_history, settings, widget, thread, pc, turns, last>>
turnVars == <<message, request, stream, thinking, assistant_response, start,
              thought_duration, out>>
backendVars == <<running, launches>>

NoMessage == [content |-> <<>>, elements |-> <<>>]

Init ==
  /\ chat_history = [s \in Sessions |-> <<>>]
  /\ settings = [s \in Sessions |-> ChatSettings]
  /\ widget = [s \in Sessions |-> ChatSettings]
  /\ thread = [s \in Sessions |-> <<>>]
  /\ pc = [s \in Sessions |-> "closed"]
  /\ turns = [s \in Sessions |-> 0]
  /\ last = [s \in Sessions |-> "none"]
  /\ message = [s \in Sessions |-> NoMessage]
  /\ request = [s \in Sessions |-> <<>>]
  /\ stream = [s \in Sessions |-> NewStream]
  /\ thinking = [s \in Sessions |-> FALSE]
  /\ assistant_response = [s \in Sessions |-> <<>>]
  /\ start = [s \in Sessions |-> 0]
  /\ thought_duration = [s \in Sessions |-> <<>>]
  /\ out = [s \in Sessions |-> <<>>]
  /\ now = 0
  /\ loop = "free"
  /\ running = FALSE
  /\ launches = 0

(* ----------------------------- event loop ------------------------------ *)
\* every handler is a coroutine of the one asyncio event loop: a handler runs
\* when no other handler holds the loop in a blocking call
Runnable(s) == loop = "free" \/ loop = s

(* --------------------------- backend start ----------------------------- *)
\* start_ollama(): the daemon thread runs _ollama, which spawns `ollama serve`
\* with no look at whether one runs; a second process finds the port taken
\* and exits, the first keeps it
start_ollama ==
  /\ launches' = launches + 1
  /\ running' = TRUE

(* ------------------------ session initialisation ----------------------- *)
\* what both on_chat_start and on_chat_resume leave of a turn's locals
ResetTurn(s) ==
  /\ message' = [message EXCEPT ![s] = NoMessage]
  /\ request' = [request EXCEPT ![s] = <<>>]
  /\ stream' = [stream EXCEPT ![s] = NewStream]
  /\ thinking' = [thinking EXCEPT ![s] = FALSE]
  /\ assistant_response' = [assistant_response EXCEPT ![s] = <<>>]
  /\ start' = [start EXCEPT ![s] = 0]
  /\ thought_duration' = [thought_duration EXCEPT ![s] = <<>>]
  /\ out' = [out EXCEPT ![s] = <<>>]

\* on_chat_start
on_chat_start(s) ==
  /\ pc[s] \in {"closed", "idle"}
  /\ Runnable(s)
  /\ launches < MaxLaunches
  /\ start_ollama
  /\ chat_history' = [chat_history EXCEPT ![s] = <<>>]
  /\ settings' = [settings EXCEPT ![s] = ChatSettings]
  /\ widget' = [widget EXCEPT ![s] = ChatSettings]
  /\ thread' = [thread EXCEPT ![s] = <<>>]
  /\ pc' = [pc EXCEPT ![s] = "idle"]
  /\ turns' = [turns EXCEPT ![s] = 0]
  /\ last' = [last EXCEPT ![s] = "none"]
  /\ ResetTurn(s)
  /\ UNCHANGED <<now, loop>>

\* the loop of on_chat_resume over thread['steps'], from history `history`
RECURSIVE Replay(_, _)
Replay(history, steps) ==
  IF Len(steps) = 0 THEN history
  ELSE IF steps[1].type = "user_message"
    THEN Replay(AppendMessage(history, "user", steps[1].output), Tail(steps))
  ELSE IF steps[1].type = "assistant_message"
    THEN Replay(AppendMessage(history, "assistant", steps[1].output), Tail(steps))
  ELSE Replay(history, Tail(steps))

\* a resume that replays the thread on top of the list it finds
ResumeBaseKept(history) == history

\* the list on_chat_resume replays the thread into: cl.user_session.set("chat_history", [])
ResumeBase(history) == <<>>

\* on_chat_resume(thread)
on_chat_resume(s, steps) ==
  /\ pc[s] \in {"closed", "idle"}
  /\ Runnable(s)
  /\ launches < MaxLaunches
  /\ start_ollama
  /\ chat_history' = [chat_history EXCEPT ![s] = Replay(ResumeBase(chat_history[s]), steps)]
  /\ settings' = [settings EXCEPT ![s] = ChatSettings]
  /\ widget' = [widget EXCEPT ![s] = ChatSettings]
  /\ thread' = [thread EXCEPT ![s] = steps]
  /\ pc' = [pc EXCEPT ![s] = "idle"]
  /\ turns' = [turns EXCEPT ![s] = 0]
  /\ last' = [last EXCEPT ![s] = "none"]
  /\ ResetTurn(s)
  /\ UNCHANGED <<now, loop>>

\* the user submits the settings form (Select 'Model', Switch 'Think'): the
\* session's settings dict, the one ChatSettings(...).send() returned, takes
\* every value of the form.  The form is submitted between turns.
update_settings(s, model, think) ==
  /\ pc[s] = "idle"
  /\ Runnable(s)
  /\ widget' = [widget EXCEPT ![s] = [Model |-> model, Think |-> think]]
  /\ settings' = [settings EXCEPT ![s] = [Model |-> model, Think |-> think]]
  /\ UNCHANGED <<chat_history, thread, pc, turns, last, turnVars, now, loop, backendVars>>

\* time passes
Tick ==
  /\ now < MaxClock
  /\ now' = now + 1
  /\ UNCHANGED <<sessionVars, turnVars, loop, backendVars>>

(* ------------------------------ a turn --------------------------------- *)
\* a resolver that passes the toggle on, whatever the model
ResolveThinkAsGiven(think, model) == think

\* settings['Think'] = False if settings['Think'] and model == models[1] else settings['Think']
ResolveThink(think, model) == IF think /\ model = models[2] THEN FALSE ELSE think

\* round(x) for x = halves / 2 >= 0: to the nearest integer, a tie to the even one
Round(halves) ==
  LET whole == halves \div 2
  IN  IF halves % 2 = 0 THEN whole
      ELSE IF whole % 2 = 0 THEN whole ELSE whole + 1

\* the difference taken the wrong way round
ThoughtDurationSwapped(time_now, time_start) == Round(time_start - time_now)

\* round(time.time() - start), for a clock in half seconds
ThoughtDuration(time_now, time_start) == Round(time_now - time_start)

\* one thing the turn sends to the UI: a token streamed to the Thinking step
\* ("reasoning") or to the final message ("answer"), or the step renamed to
\* "Thought for <seconds>s" ("label")
Emission(chan, text, seconds) == [chan |-> chan, text |-> text, seconds |-> seconds]

\* whether next(stream) can give `o`: a generator that ended or raised only stops
Offers(st, o) ==
  IF st.state = "open"
    THEN o.kind = "chunk" => Len(st.delivered) < MaxChunks
    ELSE o = StopIteration

\* the generator after next(stream) gave `o`
Advance(st, o) ==
  IF o.kind = "chunk" THEN [st EXCEPT !.delivered = Append(@, o)]
  ELSE IF o.kind = "stop" THEN [st EXCEPT !.state = "exhausted"]
  ELSE [st EXCEPT !.state = "raised"]

\* an exception leaves on_message: chainlit reports it, the session lives on
Abort(s) ==
  /\ pc' = [pc EXCEPT ![s] = "idle"]
  /\ last' = [last EXCEPT ![s] = "failed"]

\* a turn that enters the Thinking step whatever the flag
FirstPhaseAlways(think) == "thinking"

\* `if settings["Think"]:` the loop the turn reads the stream with first
FirstPhase(think) == IF think THEN "thinking" ELSE "answering"

\* a call that sends the backend the newest message only
ChatArgumentsLastOnly(model, messages, think) ==
  [model |-> model, think |-> think, messages |-> <<messages[Len(messages)]>>]

\* ollama.chat(model=model, messages=chat_history, stream=True, think=settings['Think'])
ChatArguments(model, messages, think) ==
  [model |-> model, think |-> think, messages |-> messages]

\* lines 181-195, from the history `history`: the user message is appended,
\* the backend called with think=settings['Think'], the locals set, and the
\* Thinking step entered or not
BeginGeneration(s, history, content, think) ==
  LET messages == AppendMessage(history, "user", content)
  IN  /\ chat_history' = [chat_history EXCEPT ![s] = messages]
      /\ request' = [request EXCEPT ![s] = <<ChatArguments(settings[s].Model, messages, think)>>]
      /\ stream' = [stream EXCEPT ![s] = NewStream]
      /\ thinking' = [thinking EXCEPT ![s] = FALSE]
      /\ assistant_response' = [assistant_response EXCEPT ![s] = <<>>]
      /\ start' = [start EXCEPT ![s] = now]
      /\ pc' = [pc EXCEPT ![s] = FirstPhase(think)]

\* on_message, lines 160-172, and on to line 195 when nothing is attached
on_message(s, content, elements) ==
  /\ pc[s] = "idle"
  /\ Runnable(s)
  /\ turns[s] < MaxTurns
  /\ turns' = [turns EXCEPT ![s] = @ + 1]
  /\ last' = [last EXCEPT ![s] = "running"]
  /\ settings' = [settings EXCEPT ![s].Think = ResolveThink(@, settings[s].Model)]
  /\ message' = [message EXCEPT ![s] = [content |-> content, elements |-> elements]]
  /\ out' = [out EXCEPT ![s] = <<>>]
  /\ thought_duration' = [thought_duration EXCEPT ![s] = <<>>]
  /\ IF elements = <<>>
       THEN BeginGeneration(s, chat_history[s], content,
                            ResolveThink(settings[s].Think, settings[s].Model))
       ELSE /\ pc' = [pc EXCEPT ![s] = "reading"]
            /\ request' = [request EXCEPT ![s] = <<>>]
            /\ stream' = [stream EXCEPT ![s] = NewStream]
            /\ thinking' = [thinking EXCEPT ![s] = FALSE]
            /\ assistant_response' = [assistant_response EXCEPT ![s] = <<>>]
            /\ UNCHANGED <<chat_history, start>>
  /\ UNCHANGED <<widget, thread, now, loop, backendVars>>

\* on_message, lines 173-195: read_documents in the executor, its text folded
\* into one system message, then the user message and the backend call
reading_documents(s) ==
  /\ pc[s] = "reading"
  /\ Runnable(s)
  /\ loop' = "free"
  /\ LET document_data == read_documents(message[s].elements)
     IN  IF document_data.raised
           THEN /\ Abort(s)
                /\ UNCHANGED <<chat_history, request, stream, thinking,
                               assistant_response, start>>
           ELSE /\ BeginGeneration(
                     s,
                     AppendMessage(chat_history[s], "system",
                                   ContextContent(document_data.text)),
                     message[s].content, settings[s].Think)
                /\ UNCHANGED last
  /\ UNCHANGED <<settings, widget, thread, turns, message, thought_duration, out, now,
                 backendVars>>

\* a boundary test that forgets `and thinking`
BoundaryWithoutThinking(think, was_thinking) == think

\* `elif settings["Think"] and thinking:` whether a chunk without reasoning
\* text closes the Thinking step
Boundary(think, was_thinking) == think /\ was_thinking

\* one pass of the loop `for chunk in stream` inside the Thinking step (lines
\* 196-208), `o` being what next(stream) gives
thinking_step(s, o) ==
  /\ pc[s] = "thinking"
  /\ Runnable(s)
  /\ loop' = "free"
  /\ Offers(stream[s], o)
  /\ stream' = [stream EXCEPT ![s] = Advance(@, o)]
  /\ IF o.kind = "raise"
       THEN /\ Abort(s)
            /\ UNCHANGED <<thinking, thought_duration, out>>
     ELSE IF o.kind = "stop"
       THEN /\ pc' = [pc EXCEPT ![s] = "answering"]
            /\ UNCHANGED <<last, thinking, thought_duration, out>>
     ELSE IF o.thinking # <<>>
       THEN /\ thinking' = [thinking EXCEPT ![s] = TRUE]
            /\ out' = [out EXCEPT ![s] = Append(@, Emission("reasoning", o.thinking, 0))]
            /\ UNCHANGED <<pc, last, thought_duration>>
     ELSE IF Boundary(settings[s].Think, thinking[s])
       THEN /\ thinking' = [thinking EXCEPT ![s] = FALSE]
            /\ thought_duration' = [thought_duration EXCEPT ![s] =
                                      <<ThoughtDuration(now, start[s])>>]
            /\ out' = [out EXCEPT ![s] =
                         Append(@, Emission("label", <<>>, ThoughtDuration(now, start[s])))]
            /\ pc' = [pc EXCEPT ![s] = "answering"]
            /\ UNCHANGED last
     ELSE UNCHANGED <<pc, last, thinking, thought_duration, out>>
  /\ UNCHANGED <<chat_history, settings, widget, thread, turns, message, request,
                 assistant_response, start, now, backendVars>>

\* a final-answer loop that routes each chunk by its kind
AnswerEmissionsByKind(o) ==
  IF o.thinking # <<>> THEN <<Emission("reasoning", o.thinking, 0)>>
  ELSE IF o.content # <<>> THEN <<Emission("answer", o.content, 0)>>
  ELSE <<>>

\* what the final-answer loop streams to the UI for chunk `o` (lines 212-215)
AnswerEmissions(o) ==
  IF o.content # <<>> THEN <<Emission("answer", o.content, 0)>> ELSE <<>>

\* `assistant_response = content` for `assistant_response += content`
AccumulateOverwrites(response, o) == IF o.content # <<>> THEN o.content ELSE response

\* an accumulation that takes the reasoning text of a chunk too
AccumulateWithThinking(response, o) == response \o o.thinking \o o.content

\* `if content: assistant_response += content`
Accumulate(response, o) == IF o.content # <<>> THEN response \o o.content ELSE response

\* one pass of the loop `for chunk in stream` of the final answer (lines
\* 211-219), `o` being what next(stream) gives; at the end of the stream the
\* message is sent and the assistant message appended
final_answer(s, o) ==
  /\ pc[s] = "answering"
  /\ Runnable(s)
  /\ loop' = "free"
  /\ Offers(stream[s], o)
  /\ stream' = [stream EXCEPT ![s] = Advance(@, o)]
  /\ IF o.kind = "raise"
       THEN /\ Abort(s)
            /\ UNCHANGED <<chat_history, assistant_response, out>>
     ELSE IF o.kind = "stop"
       THEN /\ chat_history' = [chat_history EXCEPT ![s] =
                                  AppendMessage(@, "assistant", assistant_response[s])]
            /\ pc' = [pc EXCEPT ![s] = "idle"]
            /\ last' = [last EXCEPT ![s] = "done"]
            /\ UNCHANGED <<assistant_response, out>>
     ELSE /\ assistant_response' = [assistant_response EXCEPT ![s] = Accumulate(@, o)]
          /\ out' = [out EXCEPT ![s] = @ \o AnswerEmissions(o)]
          /\ UNCHANGED <<chat_history, pc, last>>
  /\ UNCHANGED <<settings, widget, thread, turns, message, request, thinking, start,
                 thought_duration, now, backendVars>>

\* `time.sleep(4)` (line 178) inside the 'Reading Documents' step: the
\* executor has returned, and the handler sleeps on the event loop's own
\* thread until reading_documents goes on
time_sleep(s) ==
  /\ pc[s] = "reading"
  /\ loop = "free"
  /\ ~read_documents(message[s].elements).raised
  /\ loop' = s
  /\ UNCHANGED <<sessionVars, turnVars, now, backendVars>>

\* `for chunk in stream` (lines 197, 211) over the generator of the
\* synchronous ollama.chat: next(stream) reads the HTTP response on the event
\* loop's own thread, and returns when the backend has produced a chunk
wait_for_chunk(s) ==
  /\ pc[s] \in {"thinking", "answering"}
  /\ loop = "free"
  /\ loop' = s
  /\ UNCHANGED <<sessionVars, turnVars, now, backendVars>>

(* --------------------------- specifications ---------------------------- *)
\* the inputs the environment draws from
Contents == {<<"q">>}
Chunks == {ReasoningChunk, ContentA, ContentB, EmptyChunk, MixedChunk}
Outcomes == Chunks \cup {StopIteration, Raise}
Steps ==
  { [type |-> "user_message", output |-> <<"u">>],
    [type |-> "assistant_message", output |-> <<"v">>],
    [type |-> "tool", output |-> <<"w">>] }
Threads == SeqsUpTo(Steps, MaxSteps)
Attachments ==
  {<<>>, <<DocTxt>>, <<DocTxt, DocPdf>>, <<DocDocx, DocPng>>, <<DocPng>>, <<DocBad>>,
   <<DocTxt, DocBad>>}

\* one session and the first turn after its initialisation, without
\* attachments, over every stream of at most MaxChunks chunks
Next ==
  \/ on_chat_start("s1")
  \/ \E model \in {models[1], models[2]}, think \in BOOLEAN :
       update_settings("s1", model, think)
  \/ \E content \in Contents : turns["s1"] = 0 /\ on_message("s1", content, <<>>)
  \/ \E o \in Outcomes : thinking_step("s1", o)
  \/ \E o \in Outcomes : final_answer("s1", o)

Spec == Init /\ [][Next]_vars

\* one session under a running clock, streams that do not fail
NextClock ==
  \/ on_chat_start("s1")
  \/ \E think \in BOOLEAN : update_settings("s1", models[1], think)
  \/ \E content \in Contents : on_message("s1", content, <<>>)
  \/ \E o \in {ReasoningChunk, ContentA, EmptyChunk, StopIteration} : thinking_step("s1", o)
  \/ \E o \in {ReasoningChunk, ContentA, EmptyChunk, StopIteration} : final_answer("s1", o)
  \/ Tick

SpecClock == Init /\ [][NextClock]_vars

\* one session, turns with attachments, short streams
NextDocs ==
  \/ on_chat_start("s1")
  \/ \E think \in BOOLEAN : update_settings("s1", models[1], think)
  \/ \E content \in Contents, elements \in Attachments : on_message("s1", content, elements)
  \/ reading_documents("s1")
  \/ \E o \in {ContentA, StopIteration} : thinking_step("s1", o)
  \/ \E o \in {ContentA, StopIteration} : final_answer("s1", o)

SpecDocs == Init /\ [][NextDocs]_vars

\* one session over several turns, with and without an attachment, streams
\* that may fail
NextTurns ==
  \/ on_chat_start("s1")
  \/ \E model \in {models[1], models[2]}, think \in BOOLEAN :
       update_settings("s1", model, think)
  \/ \E content \in Contents, elements \in {<<>>, <<DocTxt>>} :
       on_message("s1", content, elements)
  \/ reading_documents("s1")
  \/ \E o \in {ReasoningChunk, ContentA, StopIteration, Raise} : thinking_step("s1", o)
  \/ \E o \in {ReasoningChunk, ContentA, StopIteration, Raise} : final_answer("s1", o)

SpecTurns == Init /\ [][NextTurns]_vars

\* one session started, resumed from every thread of at most MaxSteps steps,
\* and its turns over short streams
NextResume ==
  \/ on_chat_start("s1")
  \/ \E steps \in Threads : on_chat_resume("s1", steps)
  \/ \E content \in Contents : on_message("s1", content, <<>>)
  \/ \E o \in {ReasoningChunk, EmptyChunk, StopIteration} : thinking_step("s1", o)
  \/ \E o \in {ContentA, StopIteration} : final_answer("s1", o)

SpecResume == Init /\ [][NextResume]_vars

\* several sessions started and resumed, short streams
NextSessions ==
  \/ \E s \in Sessions : on_chat_start(s)
  \/ \E s \in Sessions, steps \in SeqsUpTo(Steps, 1) : on_chat_resume(s, steps)
  \/ \E s \in Sessions, content \in Contents : on_message(s, content, <<>>)
  \/ \E s \in Sessions : thinking_step(s, StopIteration)
  \/ \E s \in Sessions, o \in {ContentA, StopIteration} : final_answer(s, o)

SpecSessions == Init /\ [][NextSessions]_vars

\* one session whose settings update carries whatever model id the client
\* sends: chainlit stores the submitted value, and app.py registers no
\* handler that looks at it
ModelIds == {models[1], models[2]}
SubmittedModels == ModelIds \cup {"llama3"}

NextConfig ==
  \/ on_chat_start("s1")
  \/ \E model \in SubmittedModels, think \in BOOLEAN : update_settings("s1", model, think)
  \/ \E content \in Contents : on_message("s1", content, <<>>)
  \/ \E o \in {ReasoningChunk, StopIteration, Raise} : thinking_step("s1", o)
  \/ \E o \in {ContentA, StopIteration, Raise} : final_answer("s1", o)

SpecConfig == Init /\ [][NextConfig]_vars

\* one session whose turns run one after the other over readable attachments
\* and streams that end without an error; a handler that can take its next
\* step takes it: the executor returns, and the backend produces the next
\* chunk or ends the stream
LiveOutcomes == {ReasoningChunk, ContentA, StopIteration}

NextLive ==
  \/ on_chat_start("s1")
  \/ \E think \in BOOLEAN : update_settings("s1", models[1], think)
  \/ \E content \in Contents, elements \in {<<>>, <<DocTxt>>} :
       on_message("s1", content, elements)
  \/ reading_documents("s1")
  \/ \E o \in LiveOutcomes : thinking_step("s1", o)
  \/ \E o \in LiveOutcomes : final_answer("s1", o)

SpecLive ==
  /\ Init
  /\ [][NextLive]_vars
  /\ WF_vars(reading_documents("s1"))
  /\ WF_vars(\E o \in LiveOutcomes : thinking_step("s1", o))
  /\ WF_vars(\E o \in LiveOutcomes : final_answer("s1", o))

\* several sessions on the one event loop, with the blocking calls of a turn
NextLoop ==
  \/ \E s \in Sessions : on_chat_start(s)
  \/ \E s \in Sessions, content \in Contents, elements \in {<<>>, <<DocTxt>>} :
       turns[s] = 0 /\ on_message(s, content, elements)
  \/ \E s \in Sessions : time_sleep(s)
  \/ \E s \in Sessions : reading_documents(s)
  \/ \E s \in Sessions : wait_for_chunk(s)
  \/ \E s \in Sessions, o \in {ReasoningChunk, StopIteration} : thinking_step(s, o)
  \/ \E s \in Sessions, o \in {ContentA, StopIteration} : final_answer(s, o)

SpecLoop == Init /\ [][NextLoop]_vars

(* ------------------------------ properties ----------------------------- *)
\* the kinds of chunk the backend tags: reasoning text, or answer text alone
IsReasoning(c) == c.thinking # <<>>
IsContent(c) == c.thinking = <<>> /\ c.content # <<>>

\* the content text of all chunks, in order
RECURSIVE AllContent(_)
AllContent(chunks) ==
  IF Len(chunks) = 0 THEN <<>> ELSE chunks[1].content \o AllContent(Tail(chunks))

\* one or more reasoning chunks, then one or more content chunks, nothing else
ReasoningThenContent(chunks) ==
  \E k \in 1..(Len(chunks) - 1) :
    /\ \A i \in 1..k : IsReasoning(chunks[i])
    /\ \A i \in (k + 1)..Len(chunks) : IsContent(chunks[i])

\* the session's latest on_message returned normally
TurnDone(s) == pc[s] = "idle" /\ last[s] = "done"

\* the turn's backend call was made, and with which reasoning flag
Called(s) == request[s] # <<>>
ReasoningEnabled(s) == Called(s) /\ request[s][1].think

LastMessage(s) == chat_history[s][Len(chat_history[s])]

\* the emissions of the turn on one channel, in order
OnChannel(s, chan) == SelectSeq(out[s], LAMBDA e : e.chan = chan)

\* C1: with reasoning enabled, after a stream of one or more reasoning chunks
\* followed by one or more content chunks, the assistant message appended to
\* history holds the concatenation of the text of all content chunks, the
\* first content chunk (the boundary) included.
C1_AnswerIsAllContent ==
  \A s \in Sessions :
    (TurnDone(s) /\ ReasoningEnabled(s) /\ ReasoningThenContent(stream[s].delivered))
      => /\ LastMessage(s) = Message("assistant", AllContent(stream[s].delivered))
         /\ assistant_response[s] = AllContent(stream[s].delivered)

\* C2: within a turn no emission to the reasoning channel comes after an
\* emission to the answer channel.
C2_ReasoningBeforeAnswer ==
  \A s \in Sessions :
    \A i \in 1..Len(out[s]) : \A j \in 1..Len(out[s]) :
      (out[s][i].chan = "answer" /\ i < j) => out[s][j].chan # "reasoning"

\* a finished turn that emitted on both channels
C2_Witness ==
  /\ TurnDone("s1")
  /\ OnChannel("s1", "reasoning") # <<>>
  /\ OnChannel("s1", "answer") # <<>>

\* C3: in a turn whose effective reasoning flag is false the reasoning channel
\* receives nothing, whatever chunks the stream yields.
C3_NoReasoningWhenDisabled ==
  \A s \in Sessions :
    (Called(s) /\ ~request[s][1].think) => OnChannel(s, "reasoning") = <<>>

\* a finished turn with the flag false whose stream carried reasoning text
C3_Witness ==
  /\ TurnDone("s1")
  /\ ~request["s1"][1].think
  /\ \E i \in 1..Len(stream["s1"].delivered) : IsReasoning(stream["s1"].delivered[i])
  /\ \E i \in 1..Len(stream["s1"].delivered) : IsContent(stream["s1"].delivered[i])

\* C4: during a turn the reasoning flag given to the backend call, which is
\* the flag the stream loops read, is false for the reasoning-incapable model
\* whatever the user's toggle, and is the user's toggle for the capable model.
C4_EffectiveFlag ==
  \A s \in Sessions :
    pc[s] \in {"thinking", "answering"} =>
      LET r == request[s][1]
      IN  /\ r.model = widget[s].Model
          /\ r.think = (IF r.model = models[2] THEN FALSE ELSE widget[s].Think)
          /\ settings[s].Think = r.think

\* a turn with the incapable model while the user's toggle is on
C4_Witness ==
  /\ pc["s1"] \in {"thinking", "answering"}
  /\ request["s1"][1].model = models[2]
  /\ widget["s1"].Think

\* the messages a thread stands for: one per user_message or assistant_message
\* step, in the thread's order
Transcript(steps) ==
  LET kept == SelectSeq(steps, LAMBDA st : st.type \in {"user_message", "assistant_message"})
  IN  [i \in 1..Len(kept) |->
         [role |-> IF kept[i].type = "user_message" THEN "user" ELSE "assistant",
          content |-> kept[i].output]]

\* C5: after a resume, before any turn, the history is exactly the thread's
\* user and assistant steps as messages, in order; other steps give nothing
\* and nothing of the earlier history is left.
C5_ResumeReplaysThread ==
  \A s \in Sessions :
    (pc[s] = "idle" /\ turns[s] = 0) => chat_history[s] = Transcript(thread[s])

\* a session resumed, after an earlier initialisation, from a thread with a
\* message step and a step of another type
C5_Witness ==
  /\ pc["s1"] = "idle" /\ turns["s1"] = 0 /\ launches >= 2
  /\ \E i \in 1..Len(thread["s1"]) : thread["s1"][i].type = "tool"
  /\ \E i \in 1..Len(thread["s1"]) : thread["s1"][i].type = "assistant_message"

\* whether `small` can be got from `big` by leaving symbols out
RECURSIVE IsSubsequence(_, _)
IsSubsequence(small, big) ==
  IF Len(small) = 0 THEN TRUE
  ELSE IF Len(big) = 0 THEN FALSE
  ELSE IF small[1] = big[1] THEN IsSubsequence(Tail(small), Tail(big))
  ELSE IsSubsequence(small, Tail(big))

\* every recognized document's name, then its text, in attachment order
RECURSIVE NamesAndTexts(_)
NamesAndTexts(documents) ==
  IF Len(documents) = 0 THEN <<>>
  ELSE (IF Recognized(documents[1]) THEN <<documents[1].name>> \o documents[1].parts
        ELSE <<>>) \o NamesAndTexts(Tail(documents))

C7_PartialAnswerKept ==
  \A s \in Sessions :
    (last[s] = "failed" /\ Called(s))
      => LastMessage(s) = Message("assistant", assistant_response[s])

\* a reasoning chunk with a content chunk somewhere after it
ReasoningBeforeContent(chunks) ==
  \E i \in 1..Len(chunks) : \E j \in 1..Len(chunks) :
    i < j /\ IsReasoning(chunks[i]) /\ IsContent(chunks[j])

\* C8: with reasoning enabled, once the stream has yielded a reasoning chunk
\* and a content chunk after it, the reasoning duration is set and not
\* negative, and it was reported exactly once, at the boundary: right after
\* the last reasoning emission and before every answer emission.
C8_DurationOnce ==
  \A s \in Sessions :
    /\ Len(OnChannel(s, "label")) <= 1
    /\ \A i \in 1..Len(out[s]) :
         out[s][i].chan = "label" =>
           /\ thought_duration[s] = <<out[s][i].seconds>>
           /\ i > 1 /\ out[s][i - 1].chan = "reasoning"
           /\ \A j \in (i + 1)..Len(out[s]) : out[s][j].chan = "answer"
    /\ (ReasoningEnabled(s) /\ ReasoningBeforeContent(stream[s].delivered)) =>
         /\ thought_duration[s] # <<>>
         /\ thought_duration[s][1] >= 0
         /\ Len(OnChannel(s, "label")) = 1

\* a finished turn that thought for a second and then answered
C8_Witness ==
  /\ TurnDone("s1") /\ ReasoningEnabled("s1")
  /\ ReasoningBeforeContent(stream["s1"].delivered)
  /\ thought_duration["s1"] = <<1>>
  /\ OnChannel("s1", "answer") # <<>>

\* a step in which on_chat_start or on_chat_resume initialises session s: the
\* only steps that launch the backend, and they leave s without a turn
Initialises(s) ==
  /\ launches' = launches + 1
  /\ pc[s] \in {"closed", "idle"} /\ pc'[s] = "idle"
  /\ turns'[s] = 0 /\ last'[s] = "none"

\* C9: a step that is not an initialisation of the session (on_chat_start,
\* on_chat_resume) leaves the session's history as it was or extends it at
\* its end.
C9_AppendOnly ==
  [][\A s \in Sessions :
       IsPrefix(chat_history[s], chat_history'[s]) \/ Initialises(s)]_vars

\* two finished turns on top of a resumed history
C9_Witness ==
  /\ TurnDone("s1") /\ turns["s1"] = 2
  /\ thread["s1"] # <<>>
  /\ Len(chat_history["s1"]) >= 5

\* C10: `ollama serve` is launched only when no backend is running.
C10_LaunchOnlyWhenNotRunning ==
  [][launches' # launches => ~running]_vars


\* the recognized documents of `documents` whose extraction succeeds
Readable(documents) == SelectSeq(documents, LAMBDA d : Recognized(d) /\ d.readable)

\* C11: a turn with attachments, once its document reading is over, has
\* appended a system message holding the name and text of every document that
\* could be extracted, then the user's message, and has called the backend
\* with them: a document whose extraction fails is left out and the turn goes
\* on.
C11_ExtractionFailureSkipped ==
  \A s \in Sessions :
    (last[s] # "none" /\ pc[s] # "reading" /\ message[s].elements # <<>>) =>
      /\ Called(s)
      /\ LET m == request[s][1].messages
         IN  /\ Len(m) >= 2
             /\ m[Len(m)] = Message("user", message[s].content)
             /\ m[Len(m) - 1].role = "system"
             /\ IsSubsequence(NamesAndTexts(Readable(message[s].elements)),
                              m[Len(m) - 1].content)

\* the texts of a sequence of emissions, joined
RECURSIVE Texts(_)
Texts(emissions) ==
  IF Len(emissions) = 0 THEN <<>> ELSE emissions[1].text \o Texts(Tail(emissions))

\* no chunk of `chunks` carries reasoning text
NoReasoning(chunks) == \A i \in 1..Len(chunks) : ~IsReasoning(chunks[i])

\* C12: with reasoning enabled, a stream that carries no reasoning chunk is
\* handled by the answer phase from its first chunk on: every content chunk is
\* emitted on the answer channel, the answer is the concatenation of all
\* content, and no thought duration is reported.
C12_ContentFirstGoesToAnswer ==
  \A s \in Sessions :
    (TurnDone(s) /\ ReasoningEnabled(s) /\ NoReasoning(stream[s].delivered)) =>
      /\ LastMessage(s) = Message("assistant", AllContent(stream[s].delivered))
      /\ Texts(OnChannel(s, "answer")) = AllContent(stream[s].delivered)
      /\ thought_duration[s] = <<>>
      /\ OnChannel(s, "label") = <<>>

\* C13: no turn runs with a model id that is not one of the enumerated
\* models: while a turn is under way the stored model is an enumerated one,
\* and the backend is never called with another.
C13_UnknownModelRejected ==
  \A s \in Sessions :
    /\ pc[s] \in {"reading", "thinking", "answering"} => settings[s].Model \in ModelIds
    /\ Called(s) => request[s][1].model \in ModelIds

\* C14: a turn leaves the stored settings as they were: the step that starts
\* a turn and resolves its effective settings changes neither the stored
\* model nor the stored reasoning toggle, and no later step of the turn does.
C14_ResolutionKeepsStoredSettings ==
  [][\A s \in Sessions :
       (turns'[s] # turns[s] \/ pc[s] \in {"reading", "thinking", "answering"})
         => settings'[s] = settings[s]
    ]_vars

\* C15: in a turn whose effective reasoning flag is false no reasoning scan
\* takes any chunk: every chunk the stream has delivered went through the
\* answer phase, the accumulated answer and the text on the answer channel are
\* the concatenation of the content of all of them, and the assistant message
\* of the finished turn holds exactly that.
C15_DisabledAnswerIsAllContent ==
  \A s \in Sessions :
    (Called(s) /\ ~request[s][1].think) =>
      LET all == AllContent(stream[s].delivered)
      IN  /\ pc[s] # "thinking"
          /\ ~thinking[s]
          /\ thought_duration[s] = <<>>
          /\ assistant_response[s] = all
          /\ OnChannel(s, "answer") = out[s]
          /\ Texts(out[s]) = all
          /\ TurnDone(s) => LastMessage(s) = Message("assistant", all)

\* a finished turn with the flag false over content, reasoning text, content
C15_Witness ==
  /\ TurnDone("s1")
  /\ ~request["s1"][1].think
  /\ stream["s1"].delivered = <<ContentA, ReasoningChunk, ContentB>>
  /\ LastMessage("s1") = Message("assistant", <<"a", "b">>)

\* the context message a turn with attachments `elements` appends
ContextMessage(elements) ==
  Message("system", ContextContent(read_documents(elements).text))

\* what a turn's steps append to the history, step by step: nothing while the
\* documents are read, then the system message (with attachments only) and
\* the user message at once, then nothing until the assistant message at the
\* end of the stream
TurnAppendsInOrder ==
  \A s \in Sessions :
    LET h == chat_history[s]
        h2 == chat_history'[s]
        generating == {"thinking", "answering"}
    IN  /\ (pc[s] = "idle" /\ pc'[s] \in generating) =>
              /\ message'[s].elements = <<>>
              /\ h2 = Append(h, Message("user", message'[s].content))
        /\ (pc[s] = "idle" /\ pc'[s] = "reading") =>
              /\ message'[s].elements # <<>>
              /\ h2 = h
        /\ (pc[s] = "reading" /\ pc'[s] \in generating) =>
              h2 = h \o <<ContextMessage(message[s].elements),
                          Message("user", message[s].content)>>
        /\ (pc[s] \in generating /\ pc'[s] \in generating) => h2 = h
        /\ (pc[s] \in generating /\ pc'[s] = "idle") =>
              h2 = Append(h, Message("assistant", assistant_response[s]))

\* the backend call of a turn is made with the history as it is once the
\* user message is appended, and nothing is appended between the call and
\* the assistant message
CallBetweenUserAndAssistant ==
  \A s \in Sessions :
    /\ pc[s] \in {"thinking", "answering"} =>
          /\ Called(s)
          /\ chat_history[s] = request[s][1].messages
          /\ LastMessage(s) = Message("user", message[s].content)
    /\ TurnDone(s) =>
          /\ Called(s)
          /\ chat_history[s] = Append(request[s][1].messages,
                                      Message("assistant", assistant_response[s]))

\* C16: with the turns of a session run one after the other, every turn whose
\* stream ends without an error finishes, and it appends, in this order, one
\* system message if and only if documents were attached, one user message
\* and one assistant message; the backend is called after the user message is
\* appended and before the assistant message is.
C16_TurnFinishesInOrder ==
  /\ [][TurnAppendsInOrder]_vars
  /\ []CallBetweenUserAndAssistant
  /\ \A s \in Sessions : (last[s] = "running") ~> TurnDone(s)

\* a second turn, with a document, has finished after a first one without
C16_Witness ==
  /\ TurnDone("s1")
  /\ turns["s1"] = 2
  /\ message["s1"].elements = <<DocTxt>>
  /\ Len(chat_history["s1"]) = 5
  /\ chat_history["s1"][3].role = "system"

\* C17: a turn blocks only itself: while the turn of one session reads its
\* documents or waits for the backend's next chunk, the event loop is free
\* for the handlers of every other session.
C17_TurnBlocksOnlyItself ==
  \A s \in Sessions :
    pc[s] \in {"reading", "thinking", "answering"} =>
      \A t \in Sessions \ {s} : Runnable(t)

\* C18: a chunk that carries reasoning text and arrives in the answer phase
\* has that text ignored: the step that takes it emits nothing on the
\* reasoning channel and no label, adds to the answer channel and to the
\* accumulated answer nothing but the chunk's content text, and leaves the
\* turn in the answer phase.
C18_ReasoningIgnoredInAnswering ==
  [][\A s \in Sessions :
       LET d == stream[s].delivered
           d2 == stream'[s].delivered
       IN  (pc[s] = "answering" /\ Len(d2) = Len(d) + 1 /\ IsReasoning(d2[Len(d2)])) =>
             LET c == d2[Len(d2)]
                 emitted == SubSeq(out'[s], Len(out[s]) + 1, Len(out'[s]))
             IN  /\ pc'[s] = "answering"
                 /\ thinking'[s] = thinking[s]
                 /\ thought_duration'[s] = thought_duration[s]
                 /\ IsPrefix(out[s], out'[s])
                 /\ \A i \in 1..Len(emitted) : emitted[i].chan = "answer"
                 /\ Texts(emitted) = c.content
                 /\ assistant_response'[s] = assistant_response[s] \o c.content
    ]_vars

\* a finished turn with reasoning enabled whose stream gave reasoning text
\* again after the Thinking step was closed
C18_Witness ==
  /\ TurnDone("s1")
  /\ ReasoningEnabled("s1")
  /\ stream["s1"].delivered = <<ReasoningChunk, ContentA, MixedChunk>>
  /\ Len(OnChannel("s1", "reasoning")) = 1
  /\ LastMessage("s1") = Message("assistant", <<"a">>)

\* C19: no system message with an empty document payload is in a history: a
\* turn whose attachments are all of unrecognized types appends none.
C19_NoEmptyContextMessage ==
  \A s \in Sessions :
    \A i \in 1..Len(chat_history[s]) :
      chat_history[s][i] # Message("system", ContextContent(<<>>))

\* some chunk with reasoning text is followed, at once or later, by a chunk
\* without reasoning text
ReasoningThenOther(chunks) ==
  \E i \in 1..Len(chunks) : \E j \in (i + 1)..Len(chunks) :
    IsReasoning(chunks[i]) /\ ~IsReasoning(chunks[j])

\* every chunk carries reasoning text, and there is one at least
OnlyReasoning(chunks) ==
  /\ chunks # <<>>
  /\ \A i \in 1..Len(chunks) : IsReasoning(chunks[i])

\* C20: with reasoning enabled the Thinking step is closed, with its duration
\* computed and its one label shown, if and only if the stream has delivered a
\* reasoning chunk and after it a chunk without reasoning text. A turn whose
\* stream is reasoning chunks only and then ends can take its remaining steps
\* to the end, and finishes with no duration, nothing on the answer channel
\* and an assistant message of empty content.
C20_ClosedIffReasoningThenOther ==
  \A s \in Sessions :
    ReasoningEnabled(s) =>
      LET d == stream[s].delivered
      IN  /\ (thought_duration[s] # <<>>) <=> ReasoningThenOther(d)
          /\ Len(OnChannel(s, "label")) = (IF ReasoningThenOther(d) THEN 1 ELSE 0)
          /\ (pc[s] = "thinking" /\ OnlyReasoning(d) /\ stream[s].state = "open") =>
                ENABLED thinking_step(s, StopIteration)
          /\ (pc[s] = "answering" /\ OnlyReasoning(d)) =>
                /\ stream[s].state = "exhausted"
                /\ ENABLED final_answer(s, StopIteration)
          /\ (TurnDone(s) /\ OnlyReasoning(d)) =>
                /\ thought_duration[s] = <<>>
                /\ OnChannel(s, "answer") = <<>>
                /\ LastMessage(s) = Message("assistant", <<>>)

\* a turn with reasoning enabled has finished over reasoning chunks only
C20_Witness ==
  /\ TurnDone("s1")
  /\ ReasoningEnabled("s1")
  /\ stream["s1"].delivered = <<ReasoningChunk, MixedChunk>>
  /\ Len(OnChannel("s1", "reasoning")) = 2

====
